---- MODULE Spec2Model ----
(***************************************************************************)
(* A model of the rag-assistant service: the ingestion pipeline            *)
(* (services/document_processor.py, services/vector_service.py), the       *)
(* retrieval engine (main.py search_documents_internal and its passes) and *)
(* the conversational session store (services/session_context_service.py,  *)
(* main.py chat_with_ai).                                                  *)
(*                                                                         *)
(* Three specifications share the variables:                               *)
(*   Spec        uploads, ingestion tasks, reprocess requests, deletions   *)
(*   SearchSpec  retrieval calls against a vector collection               *)
(*   ChatSpec    chat turns against the session store                      *)
(* Scores and thresholds are integers in thousandths (0.7 is 700).         *)
(***************************************************************************)
EXTENDS Integers, Sequences, FiniteSets, TLC

\* ------------------------------------------------------------------ bounds
MaxDocs == 2

MaxTasks == 2

\* ------------------------------------------------------- program constants
MAX_CHUNKS_PER_DOCUMENT == 200

MAX_CHUNKS_FOR_VECTOR_DB == 100

ScrollLimit == 1000

\* --------------------------------------------------------- access control
Sections == {"restaurant_ops", "procedures", "standards"}

Levels == {"restaurant_management", "kitchen_management", "concepts_recipes"}

\* Settings.access_levels: the sections a subscription type may search; every
\* type is given the same list.
access_levels(level) == <<"restaurant_ops", "procedures", "standards">>

\* Settings.detailed_access_levels
detailed_access_levels(level, section) ==
  CASE level = "restaurant_management" ->
         (IF section = "restaurant_ops" THEN "full" ELSE "read_only")
    [] level = "kitchen_management" ->
         (IF section = "restaurant_ops" THEN "none" ELSE "full")
    [] OTHER ->
         (CASE section = "restaurant_ops" -> "none"
            [] section = "standards" -> "read_only"
            [] OTHER -> "full")

\* AccessControlService.check_section_access
check_section_access(level, section, required) ==
  LET section_access == detailed_access_levels(level, section)
  IN CASE section_access = "none" -> FALSE
       [] section_access = "full" -> TRUE
       [] OTHER -> required = "read_only"

can_upload_to_section(level, section) == check_section_access(level, section, "full")

can_delete_from_section(level, section) == check_section_access(level, section, "full")

\* AccessControlService.get_user_sections
get_user_sections(level) == access_levels(level)

\* ------------------------------------------------------------ blobs, texts
\* A chunk text is abstracted to a content class; "blank" is a text that is
\* empty after strip().
Blank == "blank"

Contents == {"plain", "short", "long", "noisy"}

\* What the parser yields for a blob: malformed (the parser reports an
\* error) or the sequence of chunk texts of its content blocks.  <<>> is a
\* file with no content block, <<Blank>> an empty text file.
Blob(texts) == [malformed |-> FALSE, texts |-> texts]

Malformed == [malformed |-> TRUE, texts |-> <<>>]

UploadBlobs == {Malformed, Blob(<<>>), Blob(<<Blank>>), Blob(<<"plain", "long">>)}

\* The principals and sections of the upload, reprocess and delete requests.
Uploaders == {"kitchen_management"}

UploadSections == {"procedures", "restaurant_ops"}

\* --------------------------------------------------------------- variables
VARIABLES
  documents,          \* documents table: id -> row
  document_chunks,    \* document_chunks table: set of rows
  points,             \* the vector collection: set of points with payload
  storage,            \* object store: ids of the documents whose blob exists
  tasks,              \* background ingestion tasks (process_document_async)
  deletion,           \* the delete request in flight (delete_document_completely)
  next_document_id,   \* the documents table's id sequence
  next_point_id,      \* stands for uuid4(): the next unused point id
  search_call,        \* SearchSpec: the last retrieval call and its result
  conversations,      \* ChatSpec: conversations table, session id -> row
  messages,           \* ChatSpec: conversation_messages, per session in created-at order
  turns,              \* ChatSpec: chat requests in flight
  clock,              \* RateSpec: time.time() in seconds
  requests,           \* RateSpec: RateLimiter.requests, token id -> record
  admitted,           \* RateSpec: per token, the times of the requests admitted in the last hour
  auth_response       \* RateSpec: what get_current_token answered last

ingestVars == <<documents, document_chunks, points, storage, tasks, deletion,
                next_document_id, next_point_id>>

searchVars == <<search_call>>

chatVars == <<conversations, messages, turns>>

rateVars == <<clock, requests, admitted, auth_response>>

vars == <<documents, document_chunks, points, storage, tasks, deletion,
          next_document_id, next_point_id, search_call, conversations,
          messages, turns, clock, requests, admitted, auth_response>>

DocIds == 1..MaxDocs

TaskIds == 1..MaxTasks

NoDocument == [exists |-> FALSE, is_processed |-> FALSE, processing_error |-> "null",
               blob |-> Malformed, section |-> "procedures",
               access_level |-> "kitchen_management"]

IdleTask == [pc |-> "idle", document_id |-> 0, chunks |-> <<>>, origin |-> "none"]

\* blob_deleted: delete_file returned True; status: the answer of the last
\* DELETE /documents/{id} (0: none yet).
NoDeletion == [pc |-> "idle", document_id |-> 0, blob_deleted |-> FALSE, status |-> 0]

\* ---------------------------------------------------------------- helpers
SeqToSet(s) == {s[i] : i \in 1..Len(s)}

Min(a, b) == IF a < b THEN a ELSE b

Max(a, b) == IF a > b THEN a ELSE b

PointsOf(d) == {p \in points : p.document_id = d}

RowsOf(d) == {c \in document_chunks : c.document_id = d}

\* DocumentProcessor._mark_document_error: sets the error on the row if the
\* row still exists.
mark_document_error(docs, d, msg) ==
  IF docs[d].exists
  THEN [docs EXCEPT ![d].processing_error = msg, ![d].is_processed = FALSE]
  ELSE docs

\* DocumentProcessor._mark_document_processed
mark_document_processed(docs, d) ==
  IF docs[d].exists
  THEN [docs EXCEPT ![d].is_processed = TRUE, ![d].processing_error = "null"]
  ELSE docs

\* The chunk list _create_chunks_from_content builds from the texts: blank
\* texts are skipped, a text whose embedding call fails (position in failed)
\* is skipped, chunk_index counts the chunks kept and stops at the cap.
RECURSIVE create_chunks(_, _, _, _)
create_chunks(texts, failed, i, acc) ==
  IF i > Len(texts) \/ Len(acc) >= MAX_CHUNKS_PER_DOCUMENT THEN acc
  ELSE IF texts[i] = Blank \/ i \in failed
       THEN create_chunks(texts, failed, i + 1, acc)
       ELSE create_chunks(texts, failed, i + 1,
              Append(acc, [chunk_index |-> Len(acc), content |-> texts[i]]))

\* asyncio.create_task(process_document_async(...)): the new task takes the
\* first free slot.
FreeTask == CHOOSE t \in TaskIds : tasks[t].pc = "idle" /\ \A u \in 1..(t-1) : tasks[u].pc # "idle"

HasFreeTask == \E t \in TaskIds : tasks[t].pc = "idle"

\* origin records the request that started the task: "upload", "reprocess",
\* or "reprocess_processed" for a reprocess request that found the row
\* processed with no task of the document in flight.
create_task(d, origin) == [tasks EXCEPT ![FreeTask] =
                     [pc |-> "start", document_id |-> d, chunks |-> <<>>, origin |-> origin]]

ActiveTasks(d) == {t \in TaskIds : tasks[t].document_id = d /\ tasks[t].pc \notin {"idle", "done"}}

\* The task returns: its locals are gone.
Finish(t) == [tasks EXCEPT ![t].pc = "done", ![t].chunks = <<>>]

Advance(t, pc) == [tasks EXCEPT ![t].pc = pc]

\* ============================================================ ingestion
\* main.py upload_document_smart: store the blob, insert the row, start the
\* background task.
Upload(level, section, blob) ==
  /\ can_upload_to_section(level, section)
  /\ next_document_id <= MaxDocs
  /\ HasFreeTask
  /\ documents' = [documents EXCEPT ![next_document_id] =
                     [exists |-> TRUE, is_processed |-> FALSE, processing_error |-> "null",
                      blob |-> blob, section |-> section, access_level |-> level]]
  /\ storage' = storage \cup {next_document_id}
  /\ tasks' = create_task(next_document_id, "upload")
  /\ next_document_id' = next_document_id + 1
  /\ UNCHANGED <<document_chunks, points, deletion, next_point_id>>

\* process_document_async, lines 34-43: look the row up.
TaskStart(t) ==
  /\ tasks[t].pc = "start"
  /\ tasks' = IF documents[tasks[t].document_id].exists
              THEN Advance(t, "download")
              ELSE Finish(t)
  /\ UNCHANGED <<documents, document_chunks, points, storage, deletion,
                 next_document_id, next_point_id>>

\* _download_document_file: a blob that is gone, or a failing store, marks
\* the error.
TaskDownload(t, ok) ==
  /\ tasks[t].pc = "download"
  /\ LET d == tasks[t].document_id
     IN IF ok /\ d \in storage
        THEN /\ tasks' = Advance(t, "parse")
             /\ UNCHANGED documents
        ELSE /\ tasks' = Finish(t)
             /\ documents' = mark_document_error(documents, d, "download")
  /\ UNCHANGED <<document_chunks, points, storage, deletion,
                 next_document_id, next_point_id>>

\* _parse_document: a parser error marks the error.
TaskParse(t) ==
  /\ tasks[t].pc = "parse"
  /\ LET d == tasks[t].document_id
     IN IF documents[d].blob.malformed
        THEN /\ tasks' = Finish(t)
             /\ documents' = mark_document_error(documents, d, "parsing")
        ELSE /\ tasks' = Advance(t, "chunk")
             /\ UNCHANGED documents
  /\ UNCHANGED <<document_chunks, points, storage, deletion,
                 next_document_id, next_point_id>>

\* _create_chunks_from_content: no content returns None, no chunk returns
\* [], and process_document_async returns on both without marking the row.
TaskChunk(t, failed) ==
  /\ tasks[t].pc = "chunk"
  /\ LET d == tasks[t].document_id
         texts == documents[d].blob.texts
         chunks == IF texts = <<>> THEN <<>> ELSE create_chunks(texts, failed, 1, <<>>)
     IN /\ failed \subseteq 1..Len(texts)
        /\ tasks' = IF chunks = <<>>
                    THEN Finish(t)
                    ELSE [Advance(t, "index") EXCEPT ![t].chunks = chunks]
  /\ UNCHANGED <<documents, document_chunks, points, storage, deletion,
                 next_document_id, next_point_id>>

\* VectorService.add_embeddings: one point per chunk under a fresh id.
add_embeddings(chunks, d, first_id) ==
  {[id |-> first_id + i - 1,
    document_id |-> d,
    chunk_index |-> chunks[i].chunk_index,
    content |-> chunks[i].content,
    section |-> documents[d].section,
    access_level |-> documents[d].access_level] : i \in 1..Len(chunks)}

\* _store_chunks_in_vector_db: clamp, upsert; a failing upsert returns False
\* and process_document_async returns without marking the row.
TaskIndex(t, ok) ==
  /\ tasks[t].pc = "index"
  /\ LET d == tasks[t].document_id
         chunks == SubSeq(tasks[t].chunks, 1, Min(Len(tasks[t].chunks), MAX_CHUNKS_FOR_VECTOR_DB))
     IN IF ok
        THEN /\ points' = points \cup add_embeddings(chunks, d, next_point_id)
             /\ next_point_id' = next_point_id + Len(chunks)
             /\ tasks' = Advance(t, "mark")
        ELSE /\ tasks' = Finish(t)
             /\ UNCHANGED <<points, next_point_id>>
  /\ UNCHANGED <<documents, document_chunks, storage, deletion, next_document_id>>

\* _mark_document_processed
TaskMark(t) ==
  /\ tasks[t].pc = "mark"
  /\ documents' = mark_document_processed(documents, tasks[t].document_id)
  /\ tasks' = Finish(t)
  /\ UNCHANGED <<document_chunks, points, storage, deletion,
                 next_document_id, next_point_id>>

\* The task of process_document_async is cancelled (the event loop cancels
\* its tasks when the server stops): CancelledError is not an Exception, so
\* the except clause does not run and only the temporary file is removed.
TaskCancel(t) ==
  /\ tasks[t].pc \notin {"idle", "done"}
  /\ tasks' = Finish(t)
  /\ UNCHANGED <<documents, document_chunks, points, storage, deletion,
                 next_document_id, next_point_id>>

\* main.py reprocess_document + DocumentProcessor.reprocess_document: clear
\* the status and start a new task.
Reprocess(level, d) ==
  /\ documents[d].exists
  /\ check_section_access(level, documents[d].section, "read_only")
  /\ HasFreeTask
  /\ documents' = [documents EXCEPT ![d].processing_error = "null", ![d].is_processed = FALSE]
  /\ tasks' = create_task(d, IF documents[d].is_processed /\ ActiveTasks(d) = {}
                             THEN "reprocess_processed" ELSE "reprocess")
  /\ UNCHANGED <<document_chunks, points, storage, deletion,
                 next_document_id, next_point_id>>

\* main.py delete_document + delete_document_completely, lines 555-570.
DeleteStart(level, d) ==
  /\ deletion.pc = "idle"
  /\ documents[d].exists
  /\ can_delete_from_section(level, documents[d].section)
  /\ deletion' = [pc |-> "storage", document_id |-> d, blob_deleted |-> FALSE, status |-> 0]
  /\ UNCHANGED <<documents, document_chunks, points, storage, tasks,
                 next_document_id, next_point_id>>

\* Step 1 with a failure that ends the delete: the answer is 500 and the
\* later steps do not run.
DeleteFromStorage_blocking(ok) ==
  /\ deletion.pc = "storage"
  /\ storage' = IF ok THEN storage \ {deletion.document_id} ELSE storage
  /\ deletion' = IF ok THEN [deletion EXCEPT !.pc = "vectors", !.blob_deleted = TRUE]
                 ELSE [NoDeletion EXCEPT !.status = 500]
  /\ UNCHANGED <<documents, document_chunks, points, tasks,
                 next_document_id, next_point_id>>

\* Step 1: delete the blob; a failure (delete_file returns False or raises,
\* as it does for a blob that is gone) is logged.
DeleteFromStorage(ok) ==
  /\ deletion.pc = "storage"
  /\ storage' = IF ok THEN storage \ {deletion.document_id} ELSE storage
  /\ deletion' = [deletion EXCEPT !.pc = "vectors", !.blob_deleted = ok]
  /\ UNCHANGED <<documents, document_chunks, points, tasks,
                 next_document_id, next_point_id>>

\* VectorService.delete_document_embeddings: scroll up to ScrollLimit points
\* of the document and delete them.
delete_document_embeddings(d) ==
  IF Cardinality(PointsOf(d)) <= ScrollLimit
  THEN points \ PointsOf(d)
  ELSE points \ (CHOOSE S \in SUBSET PointsOf(d) : Cardinality(S) = ScrollLimit)

\* Step 2: delete the vectors; a failure is logged.
DeleteVectors(ok) ==
  /\ deletion.pc = "vectors"
  /\ points' = IF ok THEN delete_document_embeddings(deletion.document_id) ELSE points
  /\ deletion' = [deletion EXCEPT !.pc = "rows"]
  /\ UNCHANGED <<documents, document_chunks, storage, tasks,
                 next_document_id, next_point_id>>

\* Step 3: delete the chunk rows and the document row in one transaction,
\* and the answer of delete_document.  ok: the transaction commits;
\* otherwise nothing is deleted and the answer is 500.
DeleteRows(ok) ==
  /\ deletion.pc = "rows"
  /\ document_chunks' = IF ok THEN document_chunks \ RowsOf(deletion.document_id)
                        ELSE document_chunks
  /\ documents' = IF ok THEN [documents EXCEPT ![deletion.document_id] = NoDocument]
                  ELSE documents
  /\ deletion' = [NoDeletion EXCEPT !.blob_deleted = deletion.blob_deleted,
                                    !.status = IF ok THEN 200 ELSE 500]
  /\ UNCHANGED <<points, storage, tasks, next_document_id, next_point_id>>

\* ============================================================ retrieval
\* Payload facts of a chunk text: len(content), the share of special
\* characters, and the cosine score of its embedding against a query.
content_length(c) ==
  CASE c = "plain" -> 150
    [] c = "short" -> 10
    [] c = "long" -> 600
    [] OTHER -> 150

\* special_chars > len(content) * 0.3
too_many_special_chars(c) == c = "noisy"

Queries == {"q_near", "q_far"}

\* Cosine similarity of a query and a chunk text, in thousandths.  q_more is
\* a follow-up ("а что ещё?") that is close to no chunk.
cosine(q, c) ==
  CASE q = "q_near" ->
         (CASE c = "plain" -> 900 [] c = "short" -> 950 [] c = "long" -> 650 [] OTHER -> 800)
    [] q = "q_far" ->
         (CASE c = "plain" -> 500 [] c = "short" -> 300 [] c = "long" -> 400 [] OTHER -> 450)
    [] OTHER -> 200

\* int("<document_id>_<chunk_index>"): DocumentSearchResult.chunk_id is an int
\* field and the payload's chunk_id a string with an underscore.
chunk_id_int(d, i) == d * 10 + i

\* sorted(..., reverse=True) on the keys: stable, highest key first.
SortDesc(s, keys) ==
  LET n == Len(s)
      rank(i) == Cardinality({j \in 1..n : keys[j] > keys[i] \/ (keys[j] = keys[i] /\ j < i)}) + 1
  IN [k \in 1..n |-> s[CHOOSE i \in 1..n : rank(i) = k]]

Take(s, n) == SubSeq(s, 1, Min(Len(s), Max(n, 0)))

RECURSIVE SetToSeq(_)
SetToSeq(S) ==
  IF S = {} THEN <<>>
  ELSE LET x == CHOOSE y \in S : \A z \in S : y.id <= z.id
       IN <<x>> \o SetToSeq(S \ {x})

MatchesFilter(p, filters) ==
  /\ (filters.section # "none" => p.section = filters.section)
  /\ (filters.access_level # "none" => p.access_level = filters.access_level)

\* QdrantClient.search: the points that pass the payload filter with a score
\* of at least the threshold, best first, at most limit of them.
client_search(q, limit, threshold10, filters) ==
  LET hits == SetToSeq({p \in points : MatchesFilter(p, filters)
                                      /\ cosine(q, p.content) * 100 >= threshold10})
      scored == [i \in 1..Len(hits) |->
                   [id |-> hits[i].id,
                    score |-> cosine(q, hits[i].content),
                    document_id |-> hits[i].document_id,
                    chunk_id |-> chunk_id_int(hits[i].document_id, hits[i].chunk_index),
                    content |-> hits[i].content,
                    section |-> hits[i].section,
                    access_level |-> hits[i].access_level]]
  IN Take(SortDesc(scored, [i \in 1..Len(scored) |-> scored[i].score]), limit)

\* calculate_quality_score: chunk_type is 'text' and metadata is non-empty
\* for every chunk the pipeline writes.
calculate_quality_score(r) ==
  r.score
  + (IF content_length(r.content) >= 100 /\ content_length(r.content) <= 500 THEN 100
     ELSE IF content_length(r.content) > 500 THEN 0 - 50 ELSE 0)
  + 50 + 20

RECURSIVE FilterSeq(_, _)
FilterSeq(s, keep) ==
  IF s = <<>> THEN <<>>
  ELSE (IF Head(s).id \in keep THEN <<Head(s)>> ELSE <<>>) \o FilterSeq(Tail(s), keep)

\* The per-document cap left out: every result is kept.
BestPerDocument_uncapped(s) == {s[i].id : i \in 1..Len(s)}

\* The ids of the results kept by the per-document cap: the best 3 of each
\* document by score (stable).
BestPerDocument(s) ==
  {s[i].id : i \in {i \in 1..Len(s) :
      Cardinality({j \in 1..Len(s) :
         /\ s[j].document_id = s[i].document_id
         /\ (s[j].score > s[i].score \/ (s[j].score = s[i].score /\ j < i))}) < 3}}

RECURSIVE DocumentOrder(_, _)
DocumentOrder(s, seen) ==
  IF s = <<>> THEN <<>>
  ELSE IF Head(s).document_id \in seen THEN DocumentOrder(Tail(s), seen)
       ELSE <<Head(s).document_id>> \o DocumentOrder(Tail(s), seen \cup {Head(s).document_id})

RECURSIVE GroupByDocument(_, _)
GroupByDocument(s, docs) ==
  IF docs = <<>> THEN <<>>
  ELSE LET mine == FilterSeq(s, {s[i].id : i \in {i \in 1..Len(s) : s[i].document_id = Head(docs)}})
       IN SortDesc(mine, [i \in 1..Len(mine) |-> mine[i].score]) \o GroupByDocument(s, Tail(docs))

\* VectorService._smart_filter_and_rank_results; threshold in thousandths.
smart_filter_and_rank_results(raw, limit, threshold) ==
  LET filtered == FilterSeq(raw, {raw[i].id : i \in {i \in 1..Len(raw) :
                     /\ content_length(raw[i].content) >= 20
                     /\ raw[i].score * 10 >= threshold * 9
                     /\ ~too_many_special_chars(raw[i].content)}})
      capped == FilterSeq(GroupByDocument(filtered, DocumentOrder(filtered, {})),
                          BestPerDocument(filtered))
      ranked == SortDesc(capped, [i \in 1..Len(capped) |-> calculate_quality_score(capped[i])])
  IN Take(ranked, limit)

\* VectorService.search_similar; threshold in thousandths.
search_similar(q, limit, threshold, filters) ==
  smart_filter_and_rank_results(
    client_search(q, Min(limit * 3, 50), threshold * 80, filters), limit, threshold)

\* _perform_section_search without the section condition in its filters.
perform_section_search_unfiltered(q, target_section, access_level, limit, threshold, failed) ==
  IF failed THEN <<>>
  ELSE LET raw == search_similar(q, limit * 2, Max(threshold, 600),
                                 [section |-> "none", access_level |-> access_level])
       IN Take(SortDesc(raw, [i \in 1..Len(raw) |-> raw[i].score]), limit)

\* main.py _perform_section_search; failed: the embedding call or the vector
\* store raises, which the pass turns into [].
perform_section_search(q, target_section, access_level, limit, threshold, failed) ==
  IF failed THEN <<>>
  ELSE LET raw == search_similar(q, limit * 2, Max(threshold, 600),
                                 [section |-> target_section, access_level |-> access_level])
       IN Take(SortDesc(raw, [i \in 1..Len(raw) |-> raw[i].score]), limit)

RECURSIVE fallback_sections(_, _, _, _, _, _)
fallback_sections(q, access_level, per_section, threshold, sections, failed) ==
  IF sections = <<>> THEN <<>>
  ELSE (IF Head(sections) \in failed THEN <<>>
        ELSE search_similar(q, per_section, threshold,
                            [section |-> Head(sections), access_level |-> access_level]))
       \o fallback_sections(q, access_level, per_section, threshold, Tail(sections), failed)

\* _perform_fallback_search with one try block around the whole loop: a
\* section whose search raises empties the pass.
perform_fallback_search_all_or_nothing(q, access_level, limit, threshold, user_sections, failed) ==
  IF SeqToSet(user_sections) \cap failed # {} THEN <<>>
  ELSE LET all == fallback_sections(q, access_level, limit \div Len(user_sections),
                                    threshold, user_sections, {})
       IN Take(SortDesc(all, [i \in 1..Len(all) |-> all[i].score]), limit)

\* main.py _perform_fallback_search; failed: the sections whose search
\* raises, which the loop skips.
perform_fallback_search(q, access_level, limit, threshold, user_sections, failed) ==
  LET all == fallback_sections(q, access_level, limit \div Len(user_sections),
                               threshold, user_sections, failed)
  IN Take(SortDesc(all, [i \in 1..Len(all) |-> all[i].score]), limit)

ResultKey(r) == <<r.document_id, r.chunk_id>>

\* The unique_results dict of search_documents_internal: one entry per
\* (document_id, chunk_id) in order of first appearance, holding the first
\* result with the highest score.
RECURSIVE unique_results(_, _)
unique_results(s, seen) ==
  IF s = <<>> THEN <<>>
  ELSE IF ResultKey(Head(s)) \in seen THEN unique_results(Tail(s), seen)
       ELSE LET same == {i \in 1..Len(s) : ResultKey(s[i]) = ResultKey(Head(s))}
                best == CHOOSE i \in same : \A j \in same :
                          s[j].score < s[i].score \/ (s[j].score = s[i].score /\ i <= j)
            IN <<s[best]>> \o unique_results(Tail(s), seen \cup {ResultKey(Head(s))})

\* search_documents_internal without the quality gate: a non-strict call
\* always goes on to the fallback pass and merges.
search_documents_internal_always_merging(q, section, access_level, limit, threshold, user_sections, strict_section_search, section_failed, fallback_failed) ==
  LET allowed == section # "none" /\ section \in SeqToSet(user_sections)
      section_results ==
        IF allowed
        THEN perform_section_search(q, section, access_level, limit, threshold, section_failed)
        ELSE <<>>
      fallback_results ==
        IF ~strict_section_search /\ user_sections # <<>>
        THEN perform_fallback_search(q, access_level, limit * 2, (threshold * 6) \div 10,
                                     user_sections, fallback_failed)
        ELSE <<>>
      all_results == section_results \o (IF strict_section_search THEN <<>> ELSE fallback_results)
      unique == unique_results(all_results, {})
  IN CASE section # "none" /\ ~allowed /\ strict_section_search -> <<>>
       [] allowed /\ section_results = <<>> /\ strict_section_search -> <<>>
       [] allowed /\ section_results # <<>> /\ strict_section_search -> Take(section_results, limit)
       [] OTHER -> Take(SortDesc(unique, [i \in 1..Len(unique) |-> unique[i].score]), limit)

\* main.py search_documents_internal.  section "none" is no section;
\* threshold in thousandths; section_failed / fallback_failed: the passes in
\* which the embedding call or the vector store raises.
search_documents_internal(q, section, access_level, limit, threshold, user_sections, strict_section_search, section_failed, fallback_failed) ==
  LET allowed == section # "none" /\ section \in SeqToSet(user_sections)
      section_results ==
        IF allowed
        THEN perform_section_search(q, section, access_level, limit, threshold, section_failed)
        ELSE <<>>
      fallback_results ==
        IF ~strict_section_search /\ user_sections # <<>>
        THEN perform_fallback_search(q, access_level, limit * 2, (threshold * 6) \div 10,
                                     user_sections, fallback_failed)
        ELSE <<>>
      all_results == section_results \o (IF strict_section_search THEN <<>> ELSE fallback_results)
      unique == unique_results(all_results, {})
  IN CASE section # "none" /\ ~allowed /\ strict_section_search -> <<>>
       [] allowed /\ section_results = <<>> /\ strict_section_search -> <<>>
       [] allowed /\ section_results # <<>> /\ strict_section_search -> Take(section_results, limit)
       [] allowed /\ section_results # <<>>
            /\ (\E i \in 1..Len(section_results) : section_results[i].score * 10 > threshold * 8)
            -> Take(section_results, limit)
       [] OTHER -> Take(SortDesc(unique, [i \in 1..Len(unique) |-> unique[i].score]), limit)

\* ------------------------------------------------------------ SearchSpec
MaxCorpusDocs == 2

\* The documents a collection may hold: absent, or uploaded by a principal
\* into a section it may upload to.
AbsentDoc == [present |-> FALSE, access_level |-> "kitchen_management",
              section |-> "procedures", texts |-> <<>>]

CorpusDoc(level, section, texts) ==
  [present |-> TRUE, access_level |-> level, section |-> section, texts |-> texts]

CorpusDocs ==
  {AbsentDoc,
   CorpusDoc("restaurant_management", "restaurant_ops", <<"plain", "long">>),
   CorpusDoc("kitchen_management", "standards", <<"short", "noisy", "plain">>),
   CorpusDoc("kitchen_management", "procedures", <<"plain", "long", "plain", "plain">>),
   CorpusDoc("concepts_recipes", "procedures", <<"long">>)}

MaxTexts == 4

CorpusPoints(corpus) ==
  UNION {{[id |-> (d - 1) * MaxTexts + i,
           document_id |-> d,
           chunk_index |-> i - 1,
           content |-> corpus[d].texts[i],
           section |-> corpus[d].section,
           access_level |-> corpus[d].access_level] : i \in 1..Len(corpus[d].texts)}
         : d \in DOMAIN corpus}

SearchLimits == {1, 10}

SearchThresholds == {0, 700, 1000}

\* DocumentSearchRequest.section: a DocumentSection or None; kitchen_ops is a
\* DocumentSection that no access list names.
SearchSections == Sections \cup {"kitchen_ops", "none"}

RequestLevels == Levels \cup {"none"}

UserSectionLists == {<<"restaurant_ops", "procedures", "standards">>,
                     <<"procedures", "standards">>}

FailedSectionSets == {{}, {"procedures"}}

NoCall == [state |-> "none"]

\* main.py search_documents (POST /search): the allowed sections come from the
\* token, the access_level filter from the request when it names one, and a
\* request that names a section is searched strictly.
SearchEndpoint(level, q, section, request_level, limit, threshold, strict, section_failed, fallback_failed) ==
  /\ search_call = NoCall
  /\ LET user_sections == get_user_sections(level)
         strict_search == strict \/ section # "none"
         access_level == IF request_level # "none" THEN request_level ELSE level
     IN search_call' =
          [state |-> "returned", via |-> "search", principal |-> level, query |-> q,
           section |-> section, access_level |-> access_level, limit |-> limit,
           score_threshold |-> threshold, strict_section_search |-> strict_search,
           user_sections |-> user_sections,
           strict_requested |-> strict,
           section_failed |-> section_failed, fallback_failed |-> fallback_failed,
           results |-> search_documents_internal(q, section, access_level, limit, threshold,
                         user_sections, strict_search, section_failed, fallback_failed)]
  /\ UNCHANGED <<ingestVars, chatVars, rateVars>>

\* A direct call of search_documents_internal with any arguments.
RetrievalCall(level, q, section, limit, threshold, user_sections, strict, section_failed, fallback_failed) ==
  /\ search_call = NoCall
  /\ search_call' =
       [state |-> "returned", via |-> "internal", principal |-> level, query |-> q,
        section |-> section, access_level |-> level, limit |-> limit,
        score_threshold |-> threshold, strict_section_search |-> strict,
        user_sections |-> user_sections,
        strict_requested |-> strict,
        section_failed |-> section_failed, fallback_failed |-> fallback_failed,
        results |-> search_documents_internal(q, section, level, limit, threshold,
                      user_sections, strict, section_failed, fallback_failed)]
  /\ UNCHANGED <<ingestVars, chatVars, rateVars>>

\* The response is delivered.
SearchReturn ==
  /\ search_call # NoCall
  /\ search_call' = NoCall
  /\ UNCHANGED <<ingestVars, chatVars, rateVars>>

\* -------------------------------------------------------------- ChatSpec
max_context_size == 25

max_messages == 10

MaxChatTurns == 3

MaxConcurrentTurns == 2

ChatSessions == {"s1"}

ChatLevels == {"kitchen_management"}

ChatMessages == {"q_near", "q_far", "q_more"}

ChatSections == {"none", "procedures"}

TurnIds == 1..MaxChatTurns

\* The collection behind the chat runs: three documents of the kitchen
\* manager in procedures, one of the restaurant manager in restaurant_ops
\* and one of the kitchen manager in standards.
ChatCorpus ==
  <<CorpusDoc("kitchen_management", "procedures", <<"plain", "plain", "long">>),
    CorpusDoc("kitchen_management", "procedures", <<"plain", "plain", "long">>),
    CorpusDoc("kitchen_management", "procedures", <<"plain", "plain", "long">>),
    CorpusDoc("restaurant_management", "restaurant_ops", <<"plain">>),
    CorpusDoc("kitchen_management", "standards", <<"long">>)>>

NoConversation == [exists |-> FALSE, user_id |-> "none", current_section |-> "none",
                   document_context |-> <<>>]

IdleTurn == [pc |-> "idle", principal |-> "none", session_id |-> "none",
             message |-> "none", section |-> "none", strategy |-> "none",
             existing_documents |-> <<>>, context_chunks |-> <<>>, status |-> 0,
             sources |-> <<>>]

MessagesOf(session) == SelectSeq(messages, LAMBDA m : m.conversation_id = session)

LastN(s, n) == SubSeq(s, Max(1, Len(s) - n + 1), Len(s))

RECURSIVE document_context_of(_)
document_context_of(msgs) ==
  IF msgs = <<>> THEN <<>>
  ELSE [i \in 1..Len(Head(msgs).search_results) |->
          [content |-> Head(msgs).search_results[i].content,
           document_id |-> Head(msgs).search_results[i].document_id,
           section |-> Head(msgs).search_results[i].section,
           score |-> Head(msgs).search_results[i].score,
           query |-> Head(msgs).search_query]]
       \o document_context_of(Tail(msgs))

\* SessionContextService.get_conversation_context: the last max_messages
\* messages in chronological order and the document context rebuilt from
\* their search_results.
get_conversation_context(session) ==
  IF ~conversations[session].exists
  THEN [messages |-> <<>>, document_context |-> <<>>, current_section |-> "none"]
  ELSE LET recent == LastN(MessagesOf(session), max_messages)
       IN [messages |-> recent,
           document_context |-> document_context_of(recent),
           current_section |-> conversations[session].current_section]

\* _is_clarifying_question: the follow-up starts with a clarifying word, or
\* repeats the nouns of the previous query.
is_clarifying_question(new_query, previous_query) ==
  new_query = "q_more" \/ new_query = previous_query

\* _calculate_query_similarity, in thousandths.
calculate_query_similarity(query1, query2) ==
  IF query1 = query2 THEN 1000
  ELSE IF {query1, query2} = {"q_near", "q_far"} THEN 400
  ELSE IF {query1, query2} = {"q_near", "q_sigma_06"} THEN 600
  ELSE IF {query1, query2} = {"q_near", "q_sigma_03"} THEN 300
  ELSE 200

\* should_use_existing_context with the reuse threshold made inclusive.
should_use_existing_context_inclusive(session, new_query) ==
  LET context == get_conversation_context(session)
      users == SelectSeq(context.messages, LAMBDA m : m.role = "user")
      last_user_message == users[Len(users)].content
      similarity == calculate_query_similarity(last_user_message, new_query)
      new_search == [use |-> FALSE, documents |-> <<>>, strategy |-> "new_search"]
  IN IF context.document_context = <<>> THEN new_search
     ELSE IF Len(context.messages) < 2 THEN new_search
     ELSE IF users = <<>> THEN new_search
     ELSE IF is_clarifying_question(new_query, last_user_message)
          THEN [use |-> TRUE, documents |-> context.document_context, strategy |-> "context_reuse"]
     ELSE IF similarity >= 600
          THEN [use |-> TRUE, documents |-> context.document_context, strategy |-> "context_reuse"]
     ELSE IF similarity > 300
          THEN [use |-> TRUE, documents |-> context.document_context, strategy |-> "hybrid_context"]
     ELSE new_search

\* SessionContextService.should_use_existing_context.
should_use_existing_context(session, new_query) ==
  LET context == get_conversation_context(session)
      users == SelectSeq(context.messages, LAMBDA m : m.role = "user")
      last_user_message == users[Len(users)].content
      similarity == calculate_query_similarity(last_user_message, new_query)
      new_search == [use |-> FALSE, documents |-> <<>>, strategy |-> "new_search"]
  IN IF context.document_context = <<>> THEN new_search
     ELSE IF Len(context.messages) < 2 THEN new_search
     ELSE IF users = <<>> THEN new_search
     ELSE IF is_clarifying_question(new_query, last_user_message)
          THEN [use |-> TRUE, documents |-> context.document_context, strategy |-> "context_reuse"]
     ELSE IF similarity > 600
          THEN [use |-> TRUE, documents |-> context.document_context, strategy |-> "context_reuse"]
     ELSE IF similarity > 300
          THEN [use |-> TRUE, documents |-> context.document_context, strategy |-> "hybrid_context"]
     ELSE new_search

\* The context chunk chat_with_ai builds from a search result or from a
\* reused document: the fields get_conversation_context reads back, and the
\* access_level.
ContextChunk(content, document_id, section, access_level, score) ==
  [content |-> content, document_id |-> document_id, section |-> section,
   access_level |-> access_level, score |-> score]

SetTurn(t, turn) == turns' = [turns EXCEPT ![t] = turn]

ActiveTurns == {t \in TurnIds : turns[t].pc \notin {"idle", "done"}}

\* chat_with_ai up to the context decision: the conversation is found by its
\* session id or created, a requested section becomes the current section
\* and clears the conversation's document_context column, and without a
\* section the context policy decides.
ChatStart(t, level, session, message, section) ==
  /\ turns[t].pc = "idle"
  /\ \A u \in TurnIds : u < t => turns[u].pc # "idle"
  /\ Cardinality(ActiveTurns) < MaxConcurrentTurns
  /\ \E decision \in {IF section # "none"
                        THEN [use |-> FALSE, documents |-> <<>>, strategy |-> "new_search"]
                        ELSE should_use_existing_context(session, message)} :
       LET conversation == IF conversations[session].exists THEN conversations[session]
                           ELSE [NoConversation EXCEPT !.exists = TRUE, !.user_id = level]
       IN /\ conversations' =
               [conversations EXCEPT ![session] =
                  IF section # "none"
                  THEN [conversation EXCEPT !.current_section = section,
                                            !.document_context = <<>>]
                  ELSE conversation]
          /\ SetTurn(t, [IdleTurn EXCEPT !.pc = "search", !.principal = level,
                                         !.session_id = session, !.message = message,
                                         !.section = section, !.strategy = decision.strategy,
                                         !.existing_documents = decision.documents])
  /\ UNCHANGED <<ingestVars, searchVars, rateVars, messages>>

\* chat_with_ai, the retrieval: the reused documents become the results, the
\* hybrid branch reads session_context before it is assigned and the turn
\* ends with status 500, and otherwise search_documents_internal runs with
\* all three sections allowed and strict_section_search False.  failed: the
\* embedding service raises in every pass.
ChatSearch(t, failed) ==
  /\ turns[t].pc = "search"
  /\ LET turn == turns[t]
         user_sections == <<"restaurant_ops", "procedures", "standards">>
         reused == [i \in 1..Len(turn.existing_documents) |->
                      ContextChunk(turn.existing_documents[i].content,
                                   turn.existing_documents[i].document_id,
                                   turn.existing_documents[i].section,
                                   turn.principal,
                                   turn.existing_documents[i].score)]
     IN CASE turn.strategy = "hybrid_context" ->
               SetTurn(t, [turn EXCEPT !.pc = "done", !.status = 500])
          [] turn.strategy = "context_reuse" ->
               SetTurn(t, [turn EXCEPT !.pc = "respond", !.context_chunks = reused])
          [] OTHER ->
               \E found \in {IF turn.section # "none"
                              THEN search_documents_internal(turn.message, turn.section,
                                     turn.principal, 8, 500, user_sections, FALSE, failed,
                                     IF failed THEN Sections ELSE {})
                              ELSE search_documents_internal(turn.message, "none",
                                     turn.principal, 6, 600, user_sections, FALSE, failed,
                                     IF failed THEN Sections ELSE {})} :
                 SetTurn(t, [turn EXCEPT !.pc = "respond", !.context_chunks =
                   [i \in 1..Len(found) |->
                      ContextChunk(found[i].content, found[i].document_id,
                                   found[i].section, found[i].access_level,
                                   found[i].score)]])
  /\ UNCHANGED <<ingestVars, searchVars, rateVars, conversations, messages>>

Message(session, role, content, search_query, search_results) ==
  [conversation_id |-> session, role |-> role, content |-> content,
   search_query |-> search_query, search_results |-> search_results]

\* chat_with_ai after the retrieval.  Without results only the user message
\* is stored and the reply carries no sources.  With results the session
\* context is read and the reply generated; ok: generate_response returns,
\* otherwise the turn ends with status 500 and nothing is stored.
ChatRespond(t, ok) ==
  /\ turns[t].pc = "respond"
  /\ LET turn == turns[t]
     IN IF turn.context_chunks = <<>>
        THEN /\ messages' = Append(messages,
                              Message(turn.session_id, "user", turn.message, "none", <<>>))
             /\ SetTurn(t, [turn EXCEPT !.pc = "done", !.status = 200])
        ELSE /\ messages' = messages
             /\ SetTurn(t, IF ok THEN [turn EXCEPT !.pc = "add_user"]
                           ELSE [turn EXCEPT !.pc = "done", !.status = 500])
  /\ UNCHANGED <<ingestVars, searchVars, rateVars, conversations>>

\* add_message_to_conversation for the user message, with the context chunks
\* of the turn as its search_results.
ChatAddUser(t) ==
  /\ turns[t].pc = "add_user"
  /\ messages' = Append(messages,
                   Message(turns[t].session_id, "user", turns[t].message,
                           turns[t].message, turns[t].context_chunks))
  /\ SetTurn(t, [turns[t] EXCEPT !.pc = "add_assistant"])
  /\ UNCHANGED <<ingestVars, searchVars, rateVars, conversations>>

RECURSIVE Ascending(_)
Ascending(S) ==
  IF S = {} THEN <<>>
  ELSE LET x == CHOOSE y \in S : \A z \in S : y <= z
       IN <<x>> \o Ascending(S \ {x})

\* The compact sources of chat_with_ai: one source per document of the
\* results, in ascending order of document id.
compact_sources(context_chunks) ==
  Ascending({context_chunks[i].document_id : i \in 1..Len(context_chunks)})

ChunksOfDocument(context_chunks, d) ==
  SelectSeq(context_chunks, LAMBDA c : c.document_id = d)

RECURSIVE total_content_length(_)
total_content_length(chunks) ==
  IF chunks = <<>> THEN 0
  ELSE content_length(Head(chunks).content) + total_content_length(Tail(chunks))

max_score(context_chunks, d) ==
  LET mine == ChunksOfDocument(context_chunks, d)
  IN IF mine = <<>> THEN 0
     ELSE CHOOSE m \in {mine[i].score : i \in 1..Len(mine)} :
            \A i \in 1..Len(mine) : mine[i].score <= m

\* The relevance criterion of _filter_relevant_sources, scores in thousandths.
is_relevant(context_chunks, d) ==
  LET mine == ChunksOfDocument(context_chunks, d)
  IN \/ max_score(context_chunks, d) > 700
     \/ /\ max_score(context_chunks, d) > 500
        /\ total_content_length(mine) > 200
        /\ Len(mine) > 1

\* _filter_relevant_sources without its fallback: only the sources whose
\* document is relevant.
filter_relevant_sources_without_fallback(sources, context_chunks) ==
  IF sources = <<>> \/ context_chunks = <<>> THEN sources
  ELSE SelectSeq(sources, LAMBDA d : is_relevant(context_chunks, d))

\* main.py _filter_relevant_sources: the sources whose document is relevant,
\* and when there is none the first source with the highest max score.
filter_relevant_sources(sources, context_chunks) ==
  IF sources = <<>> \/ context_chunks = <<>> THEN sources
  ELSE LET filtered == SelectSeq(sources, LAMBDA d : is_relevant(context_chunks, d))
           best == CHOOSE i \in 1..Len(sources) :
                     \A j \in 1..Len(sources) :
                       \/ max_score(context_chunks, sources[j]) < max_score(context_chunks, sources[i])
                       \/ (max_score(context_chunks, sources[j]) = max_score(context_chunks, sources[i])
                           /\ i <= j)
       IN IF filtered # <<>> THEN filtered ELSE <<sources[best]>>

\* add_message_to_conversation for the reply, and the response with the
\* filtered sources.
ChatAddAssistant(t) ==
  /\ turns[t].pc = "add_assistant"
  /\ messages' = Append(messages,
                   Message(turns[t].session_id, "assistant", "reply", "none", <<>>))
  /\ \E cited \in {filter_relevant_sources(compact_sources(turns[t].context_chunks),
                                             turns[t].context_chunks)} :
       SetTurn(t, [turns[t] EXCEPT !.pc = "done", !.status = 200, !.sources = cited])
  /\ UNCHANGED <<ingestVars, searchVars, rateVars, conversations>>

\* -------------------------------------------------------------- RateSpec
\* Settings.rate_limit_per_hour, scaled down to RateBaseline requests.
RateBaseline == 2

rate_limit_per_hour == RateBaseline

\* RateLimiter.cleanup_interval, in seconds.
cleanup_interval == 3600

MaxClock == 3700

\* The amounts of time that pass between two requests.
TickSteps == {900, 1830}

\* One user per subscription type; the token id is the user id.
RateTokens == Levels

NoRecord == [count |-> 0, last_reset |-> 0 - 1, access_level |-> "none"]

NoResponse == [status |-> 0, retry_after |-> 0]

\* RateLimiter._get_limit_for_access_level and the same branches of
\* check_rate_limit.
get_limit_for_access_level(access_level) ==
  IF access_level = "restaurant_management" THEN rate_limit_per_hour * 2
  ELSE IF access_level = "kitchen_management" THEN rate_limit_per_hour
  ELSE rate_limit_per_hour \div 2

\* RateLimiter._cleanup_old_requests
cleanup_old_requests(reqs, current_time) ==
  [t \in RateTokens |->
     IF reqs[t] # NoRecord /\ current_time - reqs[t].last_reset > cleanup_interval
     THEN NoRecord ELSE reqs[t]]

\* The record of a token after the initialisation and the hourly reset of
\* check_rate_limit, before the limit is tested.
token_data(reqs, token_id, access_level, current_time) ==
  LET fresh == [count |-> 0, last_reset |-> current_time, access_level |-> access_level]
      found == IF reqs[token_id] = NoRecord THEN fresh ELSE reqs[token_id]
  IN IF current_time - found.last_reset >= cleanup_interval THEN fresh ELSE found

\* RateLimiter.check_rate_limit: the records it leaves and its verdict.
check_rate_limit(reqs, token_id, access_level, current_time) ==
  LET cleaned == IF current_time % 60 < 1 THEN cleanup_old_requests(reqs, current_time)
                 ELSE reqs
      data == token_data(cleaned, token_id, access_level, current_time)
      within == data.count < get_limit_for_access_level(access_level)
  IN [allowed |-> within,
      requests |-> [cleaned EXCEPT ![token_id] =
                      IF within THEN [data EXCEPT !.count = @ + 1] ELSE data]]

\* check_rate_limit_middleware: the HTTPException it raises, or NoResponse
\* when it returns.
RateLimitExceeded == [status |-> 429, retry_after |-> 3600]

check_rate_limit_middleware(allowed) == IF allowed THEN NoResponse ELSE RateLimitExceeded

\* The HTTPException of the "except Exception" handler of get_current_token.
Unauthorized == [status |-> 401, retry_after |-> 0]

\* get_current_token for a request of the user token_id, whose subscription
\* type is its access level.  valid: validate_token returns token data.  The
\* 429 of the middleware is raised inside the try block whose
\* "except Exception" answers 401.
GetCurrentToken(token_id, valid) ==
  /\ IF ~valid
     THEN /\ auth_response' = Unauthorized
          /\ UNCHANGED <<requests, admitted>>
     ELSE \E verdict \in {check_rate_limit(requests, token_id, token_id, clock)} :
            /\ requests' = verdict.requests
            /\ admitted' = IF verdict.allowed
                           THEN [admitted EXCEPT ![token_id] = Append(@, clock)]
                           ELSE admitted
            /\ auth_response' = IF check_rate_limit_middleware(verdict.allowed) = NoResponse
                                THEN [status |-> 200, retry_after |-> 0]
                                ELSE Unauthorized
  /\ UNCHANGED <<clock, ingestVars, searchVars, chatVars>>

\* Time passes; admissions older than one hour leave the window.
Tick(dt) ==
  /\ clock + dt <= MaxClock
  /\ clock' = clock + dt
  /\ admitted' = [t \in RateTokens |->
                    SelectSeq(admitted[t], LAMBDA at : at > clock + dt - cleanup_interval)]
  /\ auth_response' = NoResponse
  /\ UNCHANGED <<requests, ingestVars, searchVars, chatVars>>

RateIdle ==
  /\ clock = 0
  /\ requests = [t \in RateTokens |-> NoRecord]
  /\ admitted = [t \in RateTokens |-> <<>>]
  /\ auth_response = NoResponse

IngestInit ==
  /\ documents = [d \in DocIds |-> NoDocument]
  /\ document_chunks = {}
  /\ points = {}
  /\ storage = {}
  /\ tasks = [t \in TaskIds |-> IdleTask]
  /\ deletion = NoDeletion
  /\ next_document_id = 1
  /\ next_point_id = 1

SearchIdle == search_call = NoCall

ChatIdle ==
  /\ conversations = [s \in ChatSessions |-> NoConversation]
  /\ messages = <<>>
  /\ turns = [t \in TurnIds |-> IdleTurn]

Init == IngestInit /\ SearchIdle /\ ChatIdle /\ RateIdle

Next ==
  \/ \E level \in Uploaders, section \in UploadSections, blob \in UploadBlobs :
       Upload(level, section, blob) /\ UNCHANGED <<searchVars, chatVars, rateVars>>
  \/ \E t \in TaskIds : TaskStart(t) /\ UNCHANGED <<searchVars, chatVars, rateVars>>
  \/ \E t \in TaskIds, ok \in BOOLEAN : TaskDownload(t, ok) /\ UNCHANGED <<searchVars, chatVars, rateVars>>
  \/ \E t \in TaskIds : TaskParse(t) /\ UNCHANGED <<searchVars, chatVars, rateVars>>
  \/ \E t \in TaskIds, failed \in SUBSET (1..2) :
       TaskChunk(t, failed) /\ UNCHANGED <<searchVars, chatVars, rateVars>>
  \/ \E t \in TaskIds, ok \in BOOLEAN : TaskIndex(t, ok) /\ UNCHANGED <<searchVars, chatVars, rateVars>>
  \/ \E t \in TaskIds : TaskMark(t) /\ UNCHANGED <<searchVars, chatVars, rateVars>>
  \/ \E level \in Uploaders, d \in DocIds : Reprocess(level, d) /\ UNCHANGED <<searchVars, chatVars, rateVars>>
  \/ \E level \in Uploaders, d \in DocIds : DeleteStart(level, d) /\ UNCHANGED <<searchVars, chatVars, rateVars>>
  \/ \E ok \in BOOLEAN : DeleteFromStorage(ok) /\ UNCHANGED <<searchVars, chatVars, rateVars>>
  \/ \E ok \in BOOLEAN : DeleteVectors(ok) /\ UNCHANGED <<searchVars, chatVars, rateVars>>
  \/ \E ok \in BOOLEAN : DeleteRows(ok) /\ UNCHANGED <<searchVars, chatVars, rateVars>>

Spec == Init /\ [][Next]_vars

\* Ingestion, reprocess and delete requests with ingestion tasks that may be
\* cancelled.
CancelNext ==
  \/ Next
  \/ \E t \in TaskIds : TaskCancel(t) /\ UNCHANGED <<searchVars, chatVars, rateVars>>

CancelSpec == Init /\ [][CancelNext]_vars

\* Uploads, their ingestion runs and deletes whose vector step and row
\* transaction succeed.
RaceNext ==
  \/ \E level \in Uploaders, section \in UploadSections, blob \in UploadBlobs :
       Upload(level, section, blob) /\ UNCHANGED <<searchVars, chatVars, rateVars>>
  \/ \E t \in TaskIds : TaskStart(t) /\ UNCHANGED <<searchVars, chatVars, rateVars>>
  \/ \E t \in TaskIds, ok \in BOOLEAN : TaskDownload(t, ok) /\ UNCHANGED <<searchVars, chatVars, rateVars>>
  \/ \E t \in TaskIds : TaskParse(t) /\ UNCHANGED <<searchVars, chatVars, rateVars>>
  \/ \E t \in TaskIds, failed \in SUBSET (1..2) :
       TaskChunk(t, failed) /\ UNCHANGED <<searchVars, chatVars, rateVars>>
  \/ \E t \in TaskIds, ok \in BOOLEAN : TaskIndex(t, ok) /\ UNCHANGED <<searchVars, chatVars, rateVars>>
  \/ \E t \in TaskIds : TaskMark(t) /\ UNCHANGED <<searchVars, chatVars, rateVars>>
  \/ \E level \in Uploaders, d \in DocIds : DeleteStart(level, d) /\ UNCHANGED <<searchVars, chatVars, rateVars>>
  \/ \E ok \in BOOLEAN : DeleteFromStorage(ok) /\ UNCHANGED <<searchVars, chatVars, rateVars>>
  \/ DeleteVectors(TRUE) /\ UNCHANGED <<searchVars, chatVars, rateVars>>
  \/ DeleteRows(TRUE) /\ UNCHANGED <<searchVars, chatVars, rateVars>>

RaceSpec == Init /\ [][RaceNext]_vars

\* Documents that have been uploaded and ingested before: each has its row,
\* the two points of its two chunks and, unless the blob has gone missing,
\* its blob.  No ingestion task is running.
StoredDocument(section) ==
  [exists |-> TRUE, is_processed |-> TRUE, processing_error |-> "null",
   blob |-> Blob(<<"plain", "long">>), section |-> section,
   access_level |-> "kitchen_management"]

StoredPoints(d, section) ==
  {[id |-> (d - 1) * 2 + i,
    document_id |-> d,
    chunk_index |-> i - 1,
    content |-> Blob(<<"plain", "long">>).texts[i],
    section |-> section,
    access_level |-> "kitchen_management"] : i \in 1..2}

StoredInit ==
  /\ \E rows \in [DocIds -> UploadSections \cup {"absent"}] :
       /\ documents = [d \in DocIds |-> IF rows[d] = "absent" THEN NoDocument
                                        ELSE StoredDocument(rows[d])]
       /\ points = UNION {IF rows[d] = "absent" THEN {} ELSE StoredPoints(d, rows[d])
                          : d \in DocIds}
       /\ \E blobs \in SUBSET {d \in DocIds : rows[d] # "absent"} : storage = blobs
  /\ document_chunks = {}
  /\ tasks = [t \in TaskIds |-> IdleTask]
  /\ deletion = NoDeletion
  /\ next_document_id = MaxDocs + 1
  /\ next_point_id = 2 * MaxDocs + 1
  /\ SearchIdle
  /\ ChatIdle
  /\ RateIdle

\* The delete requests for documents ingested before.
DeleteNext ==
  \/ \E level \in Uploaders, d \in DocIds : DeleteStart(level, d) /\ UNCHANGED <<searchVars, chatVars, rateVars>>
  \/ \E ok \in BOOLEAN : DeleteFromStorage(ok) /\ UNCHANGED <<searchVars, chatVars, rateVars>>
  \/ \E ok \in BOOLEAN : DeleteVectors(ok) /\ UNCHANGED <<searchVars, chatVars, rateVars>>
  \/ \E ok \in BOOLEAN : DeleteRows(ok) /\ UNCHANGED <<searchVars, chatVars, rateVars>>

DeleteSpec == StoredInit /\ [][DeleteNext]_vars

SearchInit ==
  /\ documents = [d \in DocIds |-> NoDocument]
  /\ document_chunks = {}
  /\ storage = {}
  /\ tasks = [t \in TaskIds |-> IdleTask]
  /\ deletion = NoDeletion
  /\ next_document_id = 1
  /\ next_point_id = 1
  /\ \E corpus \in [1..MaxCorpusDocs -> CorpusDocs] : points = CorpusPoints(corpus)
  /\ SearchIdle
  /\ ChatIdle
  /\ RateIdle

SearchNext ==
  \/ /\ search_call = NoCall
     /\ \E level \in Levels, q \in Queries, section \in SearchSections,
           request_level \in RequestLevels, limit \in SearchLimits,
           threshold \in SearchThresholds, strict \in BOOLEAN,
           section_failed \in BOOLEAN, fallback_failed \in FailedSectionSets :
          SearchEndpoint(level, q, section, request_level, limit, threshold, strict,
                         section_failed, fallback_failed)
  \/ /\ search_call = NoCall
     /\ \E level \in Levels, q \in Queries, section \in SearchSections,
           limit \in SearchLimits, threshold \in SearchThresholds,
           user_sections \in UserSectionLists, strict \in BOOLEAN,
           section_failed \in BOOLEAN, fallback_failed \in FailedSectionSets :
          RetrievalCall(level, q, section, limit, threshold, user_sections, strict,
                        section_failed, fallback_failed)
  \/ SearchReturn

SearchSpec == SearchInit /\ [][SearchNext]_vars

ChatInit ==
  /\ documents = [d \in DocIds |-> NoDocument]
  /\ document_chunks = {}
  /\ storage = {}
  /\ tasks = [t \in TaskIds |-> IdleTask]
  /\ deletion = NoDeletion
  /\ next_document_id = 1
  /\ next_point_id = 1
  /\ points = CorpusPoints(ChatCorpus)
  /\ SearchIdle
  /\ ChatIdle
  /\ RateIdle

ChatNext ==
  \/ \E t \in TurnIds, level \in ChatLevels, session \in ChatSessions,
        message \in ChatMessages, section \in ChatSections :
       ChatStart(t, level, session, message, section)
  \/ \E t \in TurnIds, failed \in BOOLEAN : ChatSearch(t, failed)
  \/ \E t \in TurnIds, ok \in BOOLEAN : ChatRespond(t, ok)
  \/ \E t \in TurnIds : ChatAddUser(t)
  \/ \E t \in TurnIds : ChatAddAssistant(t)

ChatSpec == ChatInit /\ [][ChatNext]_vars

\* ---------------------------------------------------------- DialogueSpec
\* One session served one request at a time.
MaxDialogueMessages == 4

\* q_sigma_06 and q_sigma_03 are queries whose similarity to q_near is
\* exactly 0.6 and 0.3.
DialogueMessages == ChatMessages \cup {"q_sigma_06", "q_sigma_03"}

\* chat_with_ai returns (or raises) and the request is over.
ChatReturn(t) ==
  /\ turns[t].pc = "done"
  /\ SetTurn(t, IdleTurn)
  /\ UNCHANGED <<ingestVars, searchVars, rateVars, conversations, messages>>

DialogueNext ==
  \/ \E level \in ChatLevels, session \in ChatSessions,
        message \in DialogueMessages, section \in ChatSections :
       /\ Len(messages) < MaxDialogueMessages
       /\ ChatStart(1, level, session, message, section)
  \/ \E failed \in BOOLEAN : ChatSearch(1, failed)
  \/ \E ok \in BOOLEAN : ChatRespond(1, ok)
  \/ ChatAddUser(1)
  \/ ChatAddAssistant(1)
  \/ ChatReturn(1)

DialogueSpec == ChatInit /\ [][DialogueNext]_vars

\* ----------------------------------------------------------- SessionSpec
\* Two users, one per subscription type, who send chat turns, context reads
\* and session deletes one request at a time.
SessionPrincipals == {"kitchen_management", "restaurant_management"}

\* main.py get_session_context (GET /sessions/{session_id}/context): the
\* context of the conversation with that session id, or 404.
GetSessionContext(t, level, session) ==
  /\ turns[t].pc = "idle"
  /\ SetTurn(t, [IdleTurn EXCEPT
                   !.pc = "done", !.principal = level, !.session_id = session,
                   !.strategy = "context_read",
                   !.existing_documents = get_conversation_context(session).document_context,
                   !.status = IF conversations[session].exists THEN 200 ELSE 404])
  /\ UNCHANGED <<ingestVars, searchVars, rateVars, conversations, messages>>

\* main.py delete_session (DELETE /sessions/{session_id}): the conversation
\* with that session id is deleted and the cascade deletes its messages.
DeleteSession(level, session) ==
  /\ conversations[session].exists
  /\ conversations' = [conversations EXCEPT ![session] = NoConversation]
  /\ messages' = SelectSeq(messages, LAMBDA m : m.conversation_id # session)
  /\ UNCHANGED <<ingestVars, searchVars, rateVars, turns>>

SessionNext ==
  \/ \E level \in SessionPrincipals, session \in ChatSessions,
        message \in ChatMessages, section \in ChatSections :
       /\ Len(messages) < MaxDialogueMessages
       /\ ChatStart(1, level, session, message, section)
  \/ \E failed \in BOOLEAN : ChatSearch(1, failed)
  \/ \E ok \in BOOLEAN : ChatRespond(1, ok)
  \/ ChatAddUser(1)
  \/ ChatAddAssistant(1)
  \/ ChatReturn(1)
  \/ \E level \in SessionPrincipals, session \in ChatSessions :
       GetSessionContext(1, level, session)
  \/ \E level \in SessionPrincipals, session \in ChatSessions :
       turns[1].pc = "idle" /\ DeleteSession(level, session)

SessionSpec == ChatInit /\ [][SessionNext]_vars

RateNext ==
  \/ \E token_id \in RateTokens, valid \in BOOLEAN : GetCurrentToken(token_id, valid)
  \/ \E dt \in TickSteps : Tick(dt)

RateSpec == Init /\ [][RateNext]_vars

\* ================================================= properties, ingestion
Quiescent(d) == ActiveTasks(d) = {} /\ deletion.document_id # d

Processed(d) == documents[d].exists /\ documents[d].is_processed

\* C1: every processed document has at least one chunk row, and every chunk
\* row of it has an embedding id that names a point of the collection whose
\* payload.document_id is the document.
C1_ProcessedHasChunkRowsAndVectors ==
  \A d \in DocIds : Processed(d) =>
    /\ RowsOf(d) # {}
    /\ \A c \in RowsOf(d) :
         /\ c.embedding_id # 0
         /\ \E p \in points : p.id = c.embedding_id /\ p.document_id = d

\* C2: within a run the steps follow the order lookup, download, parse,
\* chunk and embed, index, mark, and a row becomes processed only in the mark
\* step of a run on it that has indexed its chunks, with the chunk rows of
\* the document committed.
TaskOrder == <<"idle", "start", "download", "parse", "chunk", "index", "mark">>

PcRank(pc) == IF pc = "done" THEN 8 ELSE CHOOSE i \in 1..7 : TaskOrder[i] = pc

C2_ProcessedOnlyAfterIndexAndChunkRows ==
  [][/\ \A t \in TaskIds : tasks'[t].pc # tasks[t].pc =>
          \/ tasks'[t].pc = "done"
          \/ PcRank(tasks'[t].pc) = PcRank(tasks[t].pc) + 1
     /\ \A d \in DocIds : (~documents[d].is_processed /\ documents'[d].is_processed) =>
          /\ \E t \in TaskIds : /\ tasks[t].document_id = d
                                 /\ tasks[t].pc = "mark"
                                 /\ tasks'[t].pc = "done"
          /\ RowsOf(d) # {}]_vars

\* C3: a run that finishes leaves the row processed or with an error; a run
\* on a file that yields no chunk text leaves it with an error, unprocessed,
\* without chunk rows and without points.
NoText(blob) == \A i \in 1..Len(blob.texts) : blob.texts[i] = Blank

C3_FinishedRunIsTerminal ==
  [][\A t \in TaskIds :
       LET d == tasks[t].document_id
       IN (tasks[t].pc \notin {"idle", "done"} /\ tasks'[t].pc = "done" /\ documents'[d].exists) =>
            /\ documents'[d].is_processed \/ documents'[d].processing_error # "null"
            /\ NoText(documents'[d].blob) =>
                 /\ documents'[d].processing_error # "null"
                 /\ ~documents'[d].is_processed
                 /\ RowsOf(d)' = {}
                 /\ PointsOf(d)' = {}]_vars

\* C4: a run whose vector-store write fails ends with the error set and the
\* row unprocessed.
C4_VectorWriteFailureMarksError ==
  [][\A t \in TaskIds :
       LET d == tasks[t].document_id
       IN (tasks[t].pc = "index" /\ tasks'[t].pc = "done" /\ documents'[d].exists) =>
            /\ documents'[d].processing_error # "null"
            /\ ~documents'[d].is_processed]_vars

Deleted(d) == d < next_document_id /\ ~documents[d].exists /\ deletion.document_id # d

C6_NoVectorsAfterDelete ==
  \A d \in DocIds : Deleted(d) => PointsOf(d) = {}

\* ================================================= properties, retrieval
Returned == search_call.state = "returned"

ResultSections == {search_call.results[i].section : i \in 1..Len(search_call.results)}

\* C8: a retrieval call with strict_section_search and section S returns
\* only chunks of section S, whatever the allowed sections, the thresholds
\* and the failures of the passes.
C8_StrictReturnsOnlyTheSection ==
  (Returned /\ search_call.strict_section_search /\ search_call.section # "none") =>
    \A i \in 1..Len(search_call.results) :
      search_call.results[i].section = search_call.section

\* A strict call that returned chunks of its section although the collection
\* holds a chunk of another section that passes the same access_level filter.
C8_Witness ==
  /\ Returned /\ search_call.strict_section_search /\ search_call.section # "none"
  /\ search_call.results # <<>>
  /\ \E p \in points : /\ p.section # search_call.section
                        /\ p.access_level = search_call.access_level
                        /\ cosine(search_call.query, p.content) >= 900

\* C9: POST /search never returns to a principal a chunk of a section the
\* principal has no access to.
C9_NoChunkFromForbiddenSection ==
  (Returned /\ search_call.via = "search") =>
    \A sec \in ResultSections : check_section_access(search_call.principal, sec, "read_only")

\* ====================================================== properties, chat
InContextSection(pc) == pc \in {"search", "respond", "add_user", "add_assistant"}

\* C7: turns of one session are serialized: while a turn is between its
\* first read of the session context and its last write to it, no other
\* turn changes the messages of that session.
C7_TurnsOfASessionAreSerialized ==
  [][\A t \in TurnIds :
       (InContextSection(turns[t].pc) /\ turns'[t] = turns[t]) =>
         SelectSeq(messages', LAMBDA m : m.conversation_id = turns[t].session_id)
           = SelectSeq(messages, LAMBDA m : m.conversation_id = turns[t].session_id)]_vars

\* C10: the document context of a session never holds more than
\* max_context_size chunks.
C10_DocumentContextIsBounded ==
  \A session \in ChatSessions :
    Len(get_conversation_context(session).document_context) <= max_context_size

\* C11: in every conversation the stored messages, in created-at order,
\* never hold two user messages with no assistant message between them.
C11_NoTwoUserMessagesInARow ==
  \A session \in ChatSessions :
    \A i \in 1..(Len(MessagesOf(session)) - 1) :
      ~(MessagesOf(session)[i].role = "user" /\ MessagesOf(session)[i + 1].role = "user")

\* The strategy the context policy is to yield for a turn without section.
ExpectedStrategy(session, query) ==
  LET context == get_conversation_context(session)
      users == SelectSeq(context.messages, LAMBDA m : m.role = "user")
      previous == users[Len(users)].content
      sigma == calculate_query_similarity(previous, query)
  IN IF context.document_context = <<>> \/ Len(context.messages) < 2 THEN "new_search"
     ELSE IF is_clarifying_question(query, previous) THEN "context_reuse"
     ELSE IF sigma > 600 THEN "context_reuse"
     ELSE IF sigma > 300 /\ sigma <= 600 THEN "hybrid_context"
     ELSE "new_search"

C13_SectionTurnClearsDocumentContext ==
  [][\A t \in TurnIds, session \in ChatSessions :
       (/\ turns[t].pc = "idle" /\ turns'[t].pc = "search"
        /\ turns'[t].section # "none" /\ turns'[t].session_id = session) =>
         get_conversation_context(session)'.document_context = <<>>]_vars

\* C14: a turn whose strategy is hybrid_context ends with a reply built on
\* the prior snapshots merged with the results of a fresh search: it ends
\* with status 200 and a context that is not empty.
C14_HybridTurnRepliesOnMergedContext ==
  \A t \in TurnIds :
    (turns[t].pc = "done" /\ turns[t].strategy = "hybrid_context") =>
      /\ turns[t].status = 200
      /\ turns[t].context_chunks # <<>>

\* C15: the documents cited by a reply of a context_reuse turn are among
\* the documents cited by the earlier turns of the session.
C15_ReuseCitesOnlyEarlierCitations ==
  \A t \in TurnIds :
    (turns[t].pc = "done" /\ turns[t].strategy = "context_reuse" /\ turns[t].status = 200) =>
      SeqToSet(turns[t].sources) \subseteq
        UNION {SeqToSet(turns[u].sources) :
                 u \in {v \in TurnIds : v < t /\ turns[v].session_id = turns[t].session_id}}

\* ============================================ properties, retrieval (2)
\* The lowest effective threshold of a pass that can have produced a result
\* of the call: max(threshold, 0.6) for the section pass, which is the only
\* pass of a strict call with a section, and 0.6 * threshold for the
\* fallback pass.
LowestEffectiveThreshold ==
  IF search_call.strict_section_search /\ search_call.section # "none"
  THEN Max(search_call.score_threshold, 600)
  ELSE (search_call.score_threshold * 6) \div 10

\* C16: every returned chunk has a score of at least the effective
\* threshold of the pass that produced it and a content length of at least 20.
C16_ResultsMeetThresholdAndLength ==
  Returned =>
    \A i \in 1..Len(search_call.results) :
      /\ search_call.results[i].score >= LowestEffectiveThreshold
      /\ content_length(search_call.results[i].content) >= 20

ResultsOfDocument(d) ==
  {i \in 1..Len(search_call.results) : search_call.results[i].document_id = d}

\* C17: a retrieval call returns at most 3 chunks of any one document.
C17_AtMostThreeChunksPerDocument ==
  Returned =>
    \A d \in 1..MaxCorpusDocs : Cardinality(ResultsOfDocument(d)) <= 3

\* A call that returned 3 chunks of a document of which a fourth chunk
\* passed the filters too and the limit left room for it.
C17_Witness ==
  /\ Returned /\ search_call.limit = 10 /\ search_call.query = "q_near"
  /\ \E d \in 1..MaxCorpusDocs :
       /\ Cardinality(ResultsOfDocument(d)) = 3
       /\ Len(search_call.results) = 3
       /\ Cardinality({p \in points : /\ p.document_id = d
                                       /\ p.access_level = search_call.access_level
                                       /\ content_length(p.content) >= 20
                                       /\ ~too_many_special_chars(p.content)
                                       /\ cosine("q_near", p.content) >= 650}) >= 4

\* ------------------------------------------------------------------ C18
\* The passes of the last retrieval call that did not raise, computed from
\* the vector store alone.
SectionPassRuns ==
  /\ search_call.section # "none"
  /\ search_call.section \in SeqToSet(search_call.user_sections)

SurvivingSectionPass ==
  IF SectionPassRuns /\ ~search_call.section_failed
  THEN {r.id : r \in SeqToSet(search_similar(search_call.query, search_call.limit * 2,
                   Max(search_call.score_threshold, 600),
                   [section |-> search_call.section,
                    access_level |-> search_call.access_level]))}
  ELSE {}

SurvivingFallbackSection(sec) ==
  {r.id : r \in SeqToSet(search_similar(search_call.query,
             (search_call.limit * 2) \div Len(search_call.user_sections),
             (search_call.score_threshold * 6) \div 10,
             [section |-> sec, access_level |-> search_call.access_level]))}

SurvivingFallbackPass ==
  IF search_call.strict_section_search THEN {}
  ELSE UNION {SurvivingFallbackSection(sec) :
                sec \in SeqToSet(search_call.user_sections) \ search_call.fallback_failed}

ResultIds == {search_call.results[i].id : i \in 1..Len(search_call.results)}

\* C18: a pass that raises counts as an empty pass.  Every retrieval call
\* returns; what it returns comes from the passes that did not raise, and it
\* is empty only if the passes that did not raise found nothing.
C18_FailedPassIsAnEmptyPass ==
  Returned =>
    /\ ResultIds \subseteq (SurvivingSectionPass \cup SurvivingFallbackPass)
    /\ (SurvivingSectionPass # {} => search_call.results # <<>>)
    /\ ((SurvivingSectionPass = {} /\ SurvivingFallbackPass # {}) => search_call.results # <<>>)

\* The search of one fallback section raised, that section holds chunks that
\* match, and the call returns the chunks of another section.
C18_Witness ==
  /\ Returned /\ ~search_call.strict_section_search
  /\ \E sec \in search_call.fallback_failed :
        /\ sec \in SeqToSet(search_call.user_sections)
        /\ SurvivingFallbackSection(sec) # {}
  /\ search_call.results # <<>>
  /\ ResultIds \subseteq SurvivingFallbackPass

\* ------------------------------------------------------------------ C19
\* The last call names a target section that is not among the caller's
\* allowed sections.
TargetNotAllowed ==
  /\ Returned
  /\ search_call.section # "none"
  /\ search_call.section \notin SeqToSet(search_call.user_sections)

\* What the fallback pass over the allowed sections returns for the last
\* call: the call without a target section and without strictness.
FallbackOverAllowedSections ==
  search_documents_internal(search_call.query, "none", search_call.access_level,
                            search_call.limit, search_call.score_threshold,
                            search_call.user_sections, FALSE, FALSE,
                            search_call.fallback_failed)

\* C19: a request that names a target section outside the allowed sections
\* gets an empty result when it asks for strict_section_search, and otherwise
\* the results of the fallback pass over the allowed sections.
C19_ForbiddenTargetFallsBackUnlessStrict ==
  TargetNotAllowed =>
    IF search_call.strict_requested
    THEN search_call.results = <<>>
    ELSE search_call.results = FallbackOverAllowedSections

\* The same statement for direct calls of search_documents_internal only.
C19_InternalCallFallsBackUnlessStrict ==
  (TargetNotAllowed /\ search_call.via = "internal") =>
    IF search_call.strict_requested
    THEN search_call.results = <<>>
    ELSE search_call.results = FallbackOverAllowedSections

\* ------------------------------------------------------------------ C20
\* A turn that has answered on a context that is not empty.
AnsweredOnContext(t) ==
  /\ turns[t].pc = "done" /\ turns[t].status = 200
  /\ turns[t].context_chunks # <<>>

ContextDocuments(t) ==
  {turns[t].context_chunks[i].document_id : i \in 1..Len(turns[t].context_chunks)}

NoRelevantDocument(t) ==
  \A d \in ContextDocuments(t) : ~is_relevant(turns[t].context_chunks, d)

\* C20: the sources of a reply name each document of the context at most
\* once, they are not empty when the context is not empty, and when no
\* document of the context is relevant they are the one document with the
\* highest max score.
C20_SourceFilterKeepsOnePerDocumentAndNeverNone ==
  \A t \in TurnIds :
    AnsweredOnContext(t) =>
      /\ turns[t].sources # <<>>
      /\ \A i, j \in 1..Len(turns[t].sources) :
            turns[t].sources[i] = turns[t].sources[j] => i = j
      /\ \A i \in 1..Len(turns[t].sources) : turns[t].sources[i] \in ContextDocuments(t)
      /\ NoRelevantDocument(t) =>
            /\ Len(turns[t].sources) = 1
            /\ \A d \in ContextDocuments(t) :
                  max_score(turns[t].context_chunks, d)
                    <= max_score(turns[t].context_chunks, turns[t].sources[1])

\* A reply on a context of several documents none of which is relevant.
C20_Witness ==
  \E t \in TurnIds :
    /\ AnsweredOnContext(t)
    /\ Cardinality(ContextDocuments(t)) > 1
    /\ NoRelevantDocument(t)
    /\ Len(turns[t].sources) = 1

\* ------------------------------------------------------------------ C21
\* C21: in the hour that ends now, every principal has had at most its limit
\* of requests admitted: 2x the baseline for restaurant_management, the
\* baseline for kitchen_management, half the baseline for concepts_recipes.
C21_AdmittedWithinLimitInAnyHour ==
  \A t \in RateTokens : Len(admitted[t]) <= get_limit_for_access_level(t)

\* ------------------------------------------------------------------ C22
\* The principal has used up its limit in the current counting period.
Exhausted(t) ==
  /\ requests[t] # NoRecord
  /\ clock - requests[t].last_reset < cleanup_interval
  /\ requests[t].count >= get_limit_for_access_level(t)

\* C22: a request of a principal that has exhausted its limit is answered
\* with status 429 and a retry-after value.
C22_ExhaustedIsAnswered429 ==
  [][\A t \in RateTokens :
       (Exhausted(t) /\ GetCurrentToken(t, TRUE)) =>
         (auth_response'.status = 429 /\ auth_response'.retry_after > 0)]_vars

\* ------------------------------------------------------------------ C23
\* C23: a turn whose generation call fails, and fails again when it is
\* retried, still ends with an answer (status 200) and not with an error.
C23_GenerationFailureStillAnswers ==
  [][\A t \in TurnIds :
       (turns[t].pc = "respond" /\ ChatRespond(t, FALSE)) => turns'[t].status # 500]_vars

\* ------------------------------------------------------------------ C24
\* C24: a delete removes the blob, then the vectors, then the chunk rows and
\* the document row: a blob disappears only in the first step of the delete
\* of its document, points only in the second, the rows only in the third,
\* and each step is followed by the next.  A failed blob delete is followed
\* by the vector step like a successful one, and a delete that removed the
\* rows answers 200 whether the blob delete succeeded or not.
C24_DeleteOrderAndBlobFailure ==
  [][/\ \A d \in DocIds :
          /\ (d \in storage /\ d \notin storage') =>
               (deletion.pc = "storage" /\ deletion.document_id = d)
          /\ (\E p \in points : p.document_id = d /\ p \notin points') =>
               (deletion.pc = "vectors" /\ deletion.document_id = d)
          /\ (documents[d].exists /\ ~documents'[d].exists) =>
               /\ deletion.pc = "rows" /\ deletion.document_id = d
               /\ \A c \in document_chunks' : c.document_id # d
     /\ (deletion.pc = "storage" /\ deletion' # deletion) =>
          /\ deletion'.pc = "vectors"
          /\ deletion'.document_id = deletion.document_id
          /\ deletion'.status = 0
     /\ (deletion.pc = "vectors" /\ deletion' # deletion) =>
          (deletion'.pc = "rows" /\ deletion'.document_id = deletion.document_id)
     /\ (deletion.pc = "rows" /\ ~documents'[deletion.document_id].exists) =>
          deletion'.status = 200]_vars

\* A delete whose blob delete failed has answered 200: the row is gone and
\* the blob is still in the store.
C24_Witness ==
  /\ deletion.pc = "idle" /\ deletion.status = 200 /\ ~deletion.blob_deleted
  /\ \E d \in DocIds : Deleted(d) /\ d \in storage

\* ------------------------------------------------------------------ C25
\* The chunk indexes of the points of a document form 0..n-1: no run has
\* written only a part of its chunks.
NoPartialVectors(d) ==
  LET indexes == {p.chunk_index : p \in PointsOf(d)}
  IN indexes = 0..(Cardinality(indexes) - 1)

\* C25: cancelling an ingestion task that is in flight leaves its document
\* with processing_error "cancelled", not processed, and without a partial
\* set of vectors.
C25_CancelMarksCancelled ==
  [][\A t \in TaskIds :
       (TaskCancel(t) /\ documents[tasks[t].document_id].exists) =>
         \A d \in DocIds :
           d = tasks[t].document_id =>
             /\ documents'[d].processing_error = "cancelled"
             /\ ~documents'[d].is_processed
             /\ NoPartialVectors(d)']_vars

\* ------------------------------------------------------------------ C26
\* C26: once the delete of a document and every ingestion run for it have
\* finished, no point of the collection carries the document's id.
C26_NoVectorsAfterDeleteAndRun ==
  \A d \in DocIds : (Deleted(d) /\ ActiveTasks(d) = {}) => PointsOf(d) = {}

ForeignSession(level, session) ==
  /\ conversations[session].exists
  /\ conversations[session].user_id # level

\* C28: a request that names a session id created by another principal
\* leaves that conversation and its messages as they are and is given none
\* of its document context: a session delete removes nothing, a context read
\* is answered 404, and a chat turn neither changes the conversation nor
\* takes over its documents.
C28_ConversationBelongsToItsCreator ==
  [][\A level \in SessionPrincipals, session \in ChatSessions :
       ForeignSession(level, session) =>
         /\ DeleteSession(level, session) =>
              (conversations'[session] = conversations[session] /\ messages' = messages)
         /\ GetSessionContext(1, level, session) =>
              (turns'[1].status = 404 /\ turns'[1].existing_documents = <<>>)
         /\ (\E message \in ChatMessages, section \in ChatSections :
               ChatStart(1, level, session, message, section)) =>
              /\ conversations'[session] = conversations[session]
              /\ turns'[1].existing_documents = <<>>]_vars

\* ------------------------------------------------------------------ C29
\* What the section pass of the last call returned.
SectionPassResults ==
  IF SectionPassRuns
  THEN perform_section_search(search_call.query, search_call.section,
                              search_call.access_level, search_call.limit,
                              search_call.score_threshold, search_call.section_failed)
  ELSE <<>>

\* C29: a non-strict call with an allowed target section whose section pass
\* returns a chunk returns the section results trimmed to the limit and
\* nothing else; fallback results appear only when the section pass
\* returned nothing.
C29_SectionResultsAreReturnedAlone ==
  (Returned /\ ~search_call.strict_section_search /\ SectionPassRuns
     /\ SectionPassResults # <<>>) =>
    search_call.results = Take(SectionPassResults, search_call.limit)

\* The section pass returned a chunk and the fallback pass would have added
\* chunks of its own.
C29_Witness ==
  /\ Returned /\ ~search_call.strict_section_search /\ SectionPassRuns
  /\ SectionPassResults # <<>>
  /\ SurvivingFallbackPass \ {r.id : r \in SeqToSet(SectionPassResults)} # {}
  /\ search_call.results = Take(SectionPassResults, search_call.limit)

\* ------------------------------------------------------------------ C30
\* An allowed section whose search does not raise holds a chunk that the
\* fallback pass of the last call accepts: it passes the payload filter, the
\* fallback threshold and the smart filter.
FallbackHasACandidate ==
  \E p \in points :
    /\ p.section \in SeqToSet(search_call.user_sections) \ search_call.fallback_failed
    /\ MatchesFilter(p, [section |-> p.section, access_level |-> search_call.access_level])
    /\ cosine(search_call.query, p.content) * 10 >= ((search_call.score_threshold * 6) \div 10) * 9
    /\ content_length(p.content) >= 20
    /\ ~too_many_special_chars(p.content)

\* C30: for every limit of at least 1 the fallback pass gives each allowed
\* section a positive limit, and a non-strict call without a target section
\* returns a chunk whenever an allowed section holds one that the fallback
\* pass accepts.
C30_FallbackFindsWhatIsThere ==
  (Returned /\ ~search_call.strict_section_search /\ search_call.section = "none") =>
    /\ (search_call.limit * 2) \div Len(search_call.user_sections) > 0
    /\ FallbackHasACandidate => search_call.results # <<>>

====
